---- MODULE Spec2Model ----
(***************************************************************************)
(* rmx: a Rust-style mutex for C++17 (include/rmx/rmx.hpp).                *)
(*                                                                         *)
(* rmx::Mutex<ValueT, MutexImplT> owns a value, a primitive (std::mutex or *)
(* std::recursive_mutex) and the flag m_was_poisoned.  rmx::MutexGuard     *)
(* holds a std::unique_lock on the primitive, a reference to the value and *)
(* a reference to the flag; its destructor sets the flag when              *)
(* std::uncaught_exceptions() != 0, and the unique_lock member is          *)
(* destroyed (unlocking the primitive) after the destructor body.          *)
(*                                                                         *)
(* The model runs two client threads against one Mutex.  Each thread keeps *)
(* its live guards on a stack (C++ scopes), may throw, unwind to a         *)
(* handler, and run cleanup code while it unwinds.  Every read and         *)
(* write of a shared object is one atomic step; the unsynchronised read of *)
(* m_was_poisoned in is_poisoned() therefore sees the flag either before   *)
(* or after a concurrent write, which are the two outcomes of that race.   *)
(***************************************************************************)
EXTENDS Integers, Sequences, FiniteSets

\* ---- bounds of the model ----
MaxGuards == 2   \* live MutexGuard objects per thread
MaxValue == 1    \* the protected value ranges over 0..MaxValue

\* Two client threads: a holder and a contender.
Threads == {"t1", "t2"}
NoThread == "none"
Values == 0..MaxValue

\* ValueT{}: the value of a default-constructed ValueT
DefaultValue == 0

\* The arguments of the constructor of Mutex: none, or one value.
CtorArgs == {<<>>} \cup {<<v>> : v \in Values}

VARIABLES
    impl,            \* MutexImplT: "mutex" or "recursive_mutex"
    m_mutex,         \* the primitive: [owner, count]
    m_value,         \* Mutex::m_value
    m_was_poisoned,  \* Mutex::m_was_poisoned
    guards,          \* per thread: stack of live MutexGuard objects
    pc,              \* per thread: position in the client / library code
    call,            \* per thread: the Mutex member function called last ("none"
                     \* once the client has gone on to another statement)
    result,          \* per thread: what the client did or observed last: the
                     \* outcome of that call, "wrote" for a store through a guard,
                     \* "caught" for a failure that reached its handler
    exc,             \* per thread: std::uncaught_exceptions()
    handler,         \* per thread: guard-stack depth of the catch being unwound to
    tmp,             \* per thread: local copy read through a guard (<<>> or <<v>>)
    expected,        \* history: value left by the writes made through guards
    abandoned,       \* history: a guard was destroyed by a propagating failure
    fresh            \* history: <<args>>, the arguments the Mutex was constructed
                     \* from, until the first destructor of a guard starts or
                     \* the first store is made through a guard; <<>> afterwards

vars == <<impl, m_mutex, m_value, m_was_poisoned, guards, pc, call, result,
          exc, handler, tmp, expected, abandoned, fresh>>

\* ---- the primitive (std::mutex / std::recursive_mutex) ----

Free == [owner |-> NoThread, count |-> 0]

\* Can thread t take the primitive now?  A std::mutex already owned (by any
\* thread, the caller included) cannot be taken; a std::recursive_mutex can be
\* taken again by its owner.  The standard leaves locking a std::mutex again
\* by its owner undefined; what the builds do is what is modelled: lock() never
\* returns (the thread stays at "locking"), try_lock() answers false, as the
\* repository's test "try_lock() fails if already locked" expects.
\* (variants: the primitive is a std::mutex whatever MutexImplT says; the
\* unique_lock is constructed without waiting for the primitive)
CanLockStd(m, t, kind) == m.owner = NoThread

CanLockNoWait(m, t, kind) == TRUE

CanLock(m, t, kind) ==
    \/ m.owner = NoThread
    \/ kind = "recursive_mutex" /\ m.owner = t

PrimLock(m, t) == [owner |-> t, count |-> m.count + 1]

PrimUnlock(m) ==
    IF m.count <= 1 THEN Free ELSE [m EXCEPT !.count = @ - 1]

\* ---- MutexGuard ----

\* MutexGuard(value_ref, std::move(lock), was_poisoned)
NewGuard(owns) == [owns |-> owns]

\* the source of a move: its unique_lock owns nothing afterwards
\* (variant: the guard is copied, the source keeps its hold)
MovedFromCopy(g) == g

MovedFrom(g) == [g EXCEPT !.owns = FALSE]

\* ~MutexGuard body: if (std::uncaught_exceptions() != 0) m_was_poisoned = true;
\* (variants: no write at all; m_was_poisoned = (uncaught_exceptions() != 0);
\* an unconditional m_was_poisoned = true)
DtorPoisonNever(uncaught, poisoned) == poisoned

DtorPoisonAssign(uncaught, poisoned) == uncaught # 0

DtorPoisonAlways(uncaught, poisoned) == TRUE

DtorPoison(uncaught, poisoned) ==
    IF uncaught # 0 THEN TRUE ELSE poisoned

\* ~MutexGuard() runs its body, then destroys the members (m_lock is the one
\* whose destruction has an effect).
\* (variant: the primitive is unlocked first, the failure looked at afterwards)
DtorOrderUnlockFirst == <<"members", "body">>

DtorOrder == <<"body", "members">>

\* operator* / operator-> used to store v: writes through m_ref into m_value
\* (variant: the guard holds a copy of the value, m_value is not written)
StoreToCopy(old, v) == old

StoreThrough(old, v) == v

\* ---- Mutex ----

\* Mutex(ValueT&& value) : m_value(std::move(value)) and
\* Mutex(ArgsT&&... args) : m_value{std::forward<ArgsT>(args)...}
\* (variant: the arguments are dropped, m_value is default-constructed)
ConstructDefault(args) == DefaultValue

Construct(args) == IF args = <<>> THEN DefaultValue ELSE args[1]

\* Mutex::is_poisoned(): return m_was_poisoned;
\* (variant: the answer is fixed at construction)
IsPoisonedStale(poisoned) == FALSE

IsPoisoned(poisoned) == poisoned

\* Does member function fn throw the poisoned error?  lock() and try_lock()
\* call throw_if_poisoned() first, which throws std::runtime_error when
\* is_poisoned(); lock_unchecked() and try_lock_unchecked() do not call it.
\* (variants: throw_if_poisoned() never throws; the unchecked functions check
\* as well; try_lock() goes to the primitive without the check)
ThrowsNever(fn, poisoned) == FALSE

ThrowsLockOnly(fn, poisoned) == fn = "lock" /\ poisoned

ThrowsUncheckedToo(fn, poisoned) == poisoned

Throws(fn, poisoned) == fn \in {"lock", "try_lock"} /\ IsPoisoned(poisoned)

HoldsGuard(t) == \E i \in 1..Len(guards[t]) : guards[t][i].owns

OwningGuards(t) == {i \in 1..Len(guards[t]) : guards[t][i].owns}

TypeOK ==
    /\ impl \in {"mutex", "recursive_mutex"}
    /\ m_mutex \in [owner : Threads \cup {NoThread}, count : 0..(MaxGuards + 1)]
    /\ m_value \in Int
    /\ m_was_poisoned \in BOOLEAN
    /\ \A t \in Threads :
        /\ Len(guards[t]) <= MaxGuards
        /\ pc[t] \in {"run", "locking", "trying", "dtor", "unwind", "unwind_dtor"}
        /\ exc[t] \in 0..1
        /\ handler[t] \in 0..MaxGuards
        /\ Len(tmp[t]) <= 1
    /\ fresh \in {<<>>} \cup {<<a>> : a \in CtorArgs}

\* Mutex<ValueT, MutexImplT> mutex(args...): m_mutex is default-constructed
\* (unlocked), m_value is constructed from the arguments, m_was_poisoned = false.
Init ==
    /\ impl \in {"mutex", "recursive_mutex"}
    /\ m_mutex = Free
    /\ \E args \in CtorArgs :
        /\ m_value = Construct(args)
        /\ fresh = <<args>>
    /\ m_was_poisoned = FALSE
    /\ guards = [t \in Threads |-> <<>>]
    /\ pc = [t \in Threads |-> "run"]
    /\ call = [t \in Threads |-> "none"]
    /\ result = [t \in Threads |-> "none"]
    /\ exc = [t \in Threads |-> 0]
    /\ handler = [t \in Threads |-> 0]
    /\ tmp = [t \in Threads |-> <<>>]
    /\ expected = m_value
    /\ abandoned = FALSE

\* The client is between statements and may start a new one.
Ready(t) == pc[t] = "run" /\ tmp[t] = <<>>

\* The thread runs cleanup code (a destructor of a local object of the client)
\* while its failure unwinds; the guards up to Floor(t) belong to the scopes
\* being unwound or enclosing the handler, not to the code that runs now.
InCleanup(t) == exc[t] > 0 /\ pc[t] \notin {"unwind", "unwind_dtor"}

Floor(t) == IF InCleanup(t) THEN handler[t] ELSE 0

\* Client code other than cleanup code.  Cleanup code only acquires and
\* releases guards of its own.
Body(t) == Ready(t) /\ exc[t] = 0

\* The client goes on: the outcome of its last call is no longer looked at.
\* (The destructor of a guard is no statement of the client: it keeps both.)
Forget(t) ==
    /\ call' = [call EXCEPT ![t] = "none"]
    /\ result' = [result EXCEPT ![t] = "none"]

\* A failure starts to propagate in thread t towards the handler at depth h.
Raise(t, h) ==
    /\ exc' = [exc EXCEPT ![t] = @ + 1]
    /\ handler' = [handler EXCEPT ![t] = h]
    /\ pc' = [pc EXCEPT ![t] = "unwind"]

\* Entry of an acquiring member function fn: the poison check, if fn makes
\* one.  The std::runtime_error it throws propagates to a handler of the caller
\* (it is caught at once when the call is made by cleanup code); otherwise the
\* thread goes on to the primitive (position next).
Enter(t, fn, next) ==
    /\ Ready(t)
    /\ Len(guards[t]) < MaxGuards
    /\ call' = [call EXCEPT ![t] = fn]
    /\ IF Throws(fn, m_was_poisoned)
       THEN /\ result' = [result EXCEPT ![t] = "PoisonedError"]
            /\ IF exc[t] = 0
               THEN \E h \in 0..Len(guards[t]) : Raise(t, h)
               ELSE UNCHANGED <<exc, handler, pc>>
       ELSE /\ result' = [result EXCEPT ![t] = "none"]
            /\ pc' = [pc EXCEPT ![t] = next]
            /\ UNCHANGED <<exc, handler>>
    /\ UNCHANGED <<impl, m_mutex, m_value, m_was_poisoned, guards, tmp, expected, fresh,
                   abandoned>>

\* Mutex::lock(): throw_if_poisoned(); return lock_unchecked();
lock(t) == Enter(t, "lock", "locking")

\* Mutex::lock_unchecked(), called directly
lock_unchecked(t) == Enter(t, "lock_unchecked", "locking")

\* std::unique_lock<MutexImplT> lock(m_mutex); return MutexGuard(...);
\* Blocks (is not enabled) until the primitive can be taken.
LockAcquire(t) ==
    /\ pc[t] = "locking"
    /\ CanLock(m_mutex, t, impl)
    /\ m_mutex' = PrimLock(m_mutex, t)
    /\ guards' = [guards EXCEPT ![t] = Append(@, NewGuard(TRUE))]
    /\ result' = [result EXCEPT ![t] = "guard"]
    /\ pc' = [pc EXCEPT ![t] = "run"]
    /\ UNCHANGED <<impl, m_value, m_was_poisoned, call, exc, handler, tmp,
                   expected, fresh, abandoned>>

\* Mutex::try_lock(): throw_if_poisoned(); return try_lock_unchecked();
try_lock(t) == Enter(t, "try_lock", "trying")

\* Mutex::try_lock_unchecked(), called directly
try_lock_unchecked(t) == Enter(t, "try_lock_unchecked", "trying")

\* if (maybe_lock) return std::optional<MutexGuard>(std::in_place, ...);
\* return std::nullopt;
\* (variant: the test of maybe_lock is missing)
TryResultAlways(maybe_lock) == "guard"

TryResult(maybe_lock) == IF maybe_lock THEN "guard" ELSE "nullopt"

\* std::unique_lock<MutexImplT> maybe_lock(m_mutex, std::try_to_lock); ...
\* Never waits: it is enabled whatever the state of the primitive.  A
\* maybe_lock that is not handed to a guard is destroyed at the return and
\* gives back what it took.
TryAcquire(t) ==
    /\ pc[t] = "trying"
    /\ LET maybe_lock == CanLock(m_mutex, t, impl)
           res == TryResult(maybe_lock)
       IN /\ result' = [result EXCEPT ![t] = res]
          /\ IF res = "guard"
             THEN /\ guards' = [guards EXCEPT ![t] = Append(@, NewGuard(maybe_lock))]
                  /\ m_mutex' = IF maybe_lock THEN PrimLock(m_mutex, t) ELSE m_mutex
             ELSE UNCHANGED <<guards, m_mutex>>
    /\ pc' = [pc EXCEPT ![t] = "run"]
    /\ UNCHANGED <<impl, m_value, m_was_poisoned, call, exc, handler, tmp,
                   expected, fresh, abandoned>>

\* Mutex::is_poisoned(): return m_was_poisoned;
is_poisoned(t) ==
    /\ Body(t)
    /\ call' = [call EXCEPT ![t] = "is_poisoned"]
    /\ result' = [result EXCEPT ![t] =
                      IF IsPoisoned(m_was_poisoned) THEN "true" ELSE "false"]
    /\ UNCHANGED <<impl, m_mutex, m_value, m_was_poisoned, guards, pc, exc,
                   handler, tmp, expected, fresh, abandoned>>

\* One part of ~MutexGuard() of the guard on top of the stack of thread t.
\* "body":    if (std::uncaught_exceptions() != 0) m_was_poisoned.get() = true;
\* "members": ~unique_lock() of m_lock unlocks the primitive if it owns it.
\* (variants: the destructor unlocks the primitive whether or not m_lock owns
\* it; a guard destroyed while a failure propagates keeps the primitive)
DtorStepUnlockAlways(t, part) ==
    /\ m_was_poisoned' = IF part = "body"
                          THEN DtorPoison(exc[t], m_was_poisoned)
                          ELSE m_was_poisoned
    /\ m_mutex' = IF part = "members" THEN PrimUnlock(m_mutex) ELSE m_mutex

DtorStepKeepOnFailure(t, part) ==
    /\ m_was_poisoned' = IF part = "body"
                          THEN DtorPoison(exc[t], m_was_poisoned)
                          ELSE m_was_poisoned
    /\ m_mutex' = IF part = "members" /\ guards[t][Len(guards[t])].owns
                      /\ exc[t] = 0
                   THEN PrimUnlock(m_mutex)
                   ELSE m_mutex

DtorStep(t, part) ==
    /\ m_was_poisoned' = IF part = "body"
                          THEN DtorPoison(exc[t], m_was_poisoned)
                          ELSE m_was_poisoned
    /\ m_mutex' = IF part = "members" /\ guards[t][Len(guards[t])].owns
                   THEN PrimUnlock(m_mutex)
                   ELSE m_mutex

\* ~MutexGuard(), body, of the guard on top of the stack: at the end of its
\* scope (pc = "run") or because a failure unwinds the scope (pc = "unwind").
Dtor(t) ==
    /\ \/ Ready(t) /\ Len(guards[t]) > Floor(t)
       \/ pc[t] = "unwind" /\ Len(guards[t]) > handler[t]
    /\ DtorStep(t, DtorOrder[1])
    /\ abandoned' = (abandoned \/ pc[t] = "unwind")
    /\ pc' = [pc EXCEPT ![t] = IF pc[t] = "run" THEN "dtor" ELSE "unwind_dtor"]
    /\ fresh' = <<>>
    /\ UNCHANGED <<impl, m_value, guards, call, result, exc, handler, tmp,
                   expected>>

\* ~MutexGuard(), members: m_lock is destroyed after the body and unlocks the
\* primitive if it owns it; the guard is gone.
DtorUnlock(t) ==
    /\ pc[t] \in {"dtor", "unwind_dtor"}
    /\ DtorStep(t, DtorOrder[2])
    /\ guards' = [guards EXCEPT ![t] = SubSeq(@, 1, Len(@) - 1)]
    /\ pc' = [pc EXCEPT ![t] = IF pc[t] = "dtor" THEN "run" ELSE "unwind"]
    /\ UNCHANGED <<impl, m_value, call, result, exc, handler, tmp, expected,
                   fresh, abandoned>>

\* The client throws; the handler encloses the h outermost guards of the
\* thread (h = Len(guards[t]): the failure is caught inside every guard's
\* scope).  A read-modify-write under way is abandoned.
Throw(t) ==
    /\ pc[t] = "run"
    /\ exc[t] = 0
    /\ \E h \in 0..Len(guards[t]) : Raise(t, h)
    /\ tmp' = [tmp EXCEPT ![t] = <<>>]
    /\ Forget(t)
    /\ UNCHANGED <<impl, m_mutex, m_value, m_was_poisoned, guards, expected, fresh,
                   abandoned>>

\* The failure reaches its handler: catch (...) { }
Catch(t) ==
    /\ pc[t] = "unwind"
    /\ Len(guards[t]) = handler[t]
    /\ exc' = [exc EXCEPT ![t] = @ - 1]
    /\ handler' = [handler EXCEPT ![t] = 0]
    /\ pc' = [pc EXCEPT ![t] = "run"]
    /\ call' = [call EXCEPT ![t] = "none"]
    /\ result' = [result EXCEPT ![t] = "caught"]
    /\ UNCHANGED <<impl, m_mutex, m_value, m_was_poisoned, guards, tmp, expected, fresh,
                   abandoned>>

\* While the failure unwinds, the destructor of another local object of the
\* unwound scopes runs client code (here: of an object declared before the
\* guards of those scopes, so it runs after they are gone); that code may use
\* the Mutex in scopes of its own.
EnterCleanup(t) ==
    /\ pc[t] = "unwind"
    /\ Len(guards[t]) = handler[t]
    /\ pc' = [pc EXCEPT ![t] = "run"]
    /\ Forget(t)
    /\ UNCHANGED <<impl, m_mutex, m_value, m_was_poisoned, guards, exc, handler,
                   tmp, expected, fresh, abandoned>>

\* The cleanup code returns; unwinding goes on.
ExitCleanup(t) ==
    /\ Ready(t)
    /\ InCleanup(t)
    /\ Len(guards[t]) = handler[t]
    /\ pc' = [pc EXCEPT ![t] = "unwind"]
    /\ Forget(t)
    /\ UNCHANGED <<impl, m_mutex, m_value, m_was_poisoned, guards, exc, handler,
                   tmp, expected, fresh, abandoned>>

\* MutexGuard(MutexGuard&&) = default: a new guard takes over the hold of
\* guard i, which stays alive, moved-from, until its own scope ends.
MoveConstruct(t) ==
    /\ Body(t)
    /\ Len(guards[t]) < MaxGuards
    /\ \E i \in (Floor(t) + 1)..Len(guards[t]) :
        guards' = [guards EXCEPT ![t] =
                      Append([@ EXCEPT ![i] = MovedFrom(@)], guards[t][i])]
    /\ Forget(t)
    /\ UNCHANGED <<impl, m_mutex, m_value, m_was_poisoned, pc, exc, handler, tmp,
                   expected, fresh, abandoned>>

\* MutexGuard& operator=(MutexGuard&&) = default: guards[i] = std::move(guards[j]).
\* The unique_lock of the target unlocks what it owns, then takes over the
\* hold of the source; no destructor runs.
MoveAssign(t) ==
    /\ Body(t)
    /\ \E i, j \in (Floor(t) + 1)..Len(guards[t]) :
        /\ i # j
        /\ m_mutex' = IF guards[t][i].owns THEN PrimUnlock(m_mutex) ELSE m_mutex
        /\ guards' = [guards EXCEPT ![t] =
                         [@ EXCEPT ![i] = guards[t][j], ![j] = MovedFrom(@)]]
    /\ Forget(t)
    /\ UNCHANGED <<impl, m_value, m_was_poisoned, pc, exc, handler, tmp, expected, fresh,
                   abandoned>>

\* *guard = v;  through a guard that holds the primitive
GuardWrite(t) ==
    /\ Body(t)
    /\ HoldsGuard(t)
    /\ \E v \in Values :
        /\ m_value' = StoreThrough(m_value, v)
        /\ expected' = v
    /\ fresh' = <<>>
    /\ call' = [call EXCEPT ![t] = "none"]
    /\ result' = [result EXCEPT ![t] = "wrote"]
    /\ UNCHANGED <<impl, m_mutex, m_was_poisoned, guards, pc, exc, handler, tmp,
                   abandoned>>

\* *guard += 1, first half: read the value through the guard
GuardRead(t) ==
    /\ Body(t)
    /\ HoldsGuard(t)
    /\ m_value < MaxValue
    /\ tmp' = [tmp EXCEPT ![t] = <<m_value>>]
    /\ Forget(t)
    /\ UNCHANGED <<impl, m_mutex, m_value, m_was_poisoned, guards, pc, exc,
                   handler, expected, fresh, abandoned>>

\* *guard += 1, second half: write the incremented value back
GuardIncr(t) ==
    /\ pc[t] = "run"
    /\ tmp[t] # <<>>
    /\ m_value' = StoreThrough(m_value, tmp[t][1] + 1)
    /\ expected' = expected + 1
    /\ fresh' = <<>>
    /\ tmp' = [tmp EXCEPT ![t] = <<>>]
    /\ result' = [result EXCEPT ![t] = "wrote"]
    /\ UNCHANGED <<impl, m_mutex, m_was_poisoned, guards, pc, call, exc, handler,
                   abandoned>>

Next ==
    \E t \in Threads :
        \/ lock(t)
        \/ lock_unchecked(t)
        \/ LockAcquire(t)
        \/ try_lock(t)
        \/ try_lock_unchecked(t)
        \/ TryAcquire(t)
        \/ is_poisoned(t)
        \/ Dtor(t)
        \/ DtorUnlock(t)
        \/ Throw(t)
        \/ Catch(t)
        \/ EnterCleanup(t)
        \/ ExitCleanup(t)
        \/ MoveConstruct(t)
        \/ MoveAssign(t)
        \/ GuardWrite(t)
        \/ GuardRead(t)
        \/ GuardIncr(t)

Spec == Init /\ [][Next]_vars

\* The primitive grants waiters fairly: a thread waiting in the constructor of
\* std::unique_lock for a primitive that is free again and again gets it.
LockFairness == \A t \in Threads : SF_vars(LockAcquire(t))

\* Clients that take the primitive by the blocking calls only: they acquire,
\* store, move and release guards, throw and catch.
NextBlocking ==
    \E t \in Threads :
        \/ lock(t)
        \/ lock_unchecked(t)
        \/ LockAcquire(t)
        \/ Dtor(t)
        \/ DtorUnlock(t)
        \/ Throw(t)
        \/ Catch(t)
        \/ MoveConstruct(t)
        \/ MoveAssign(t)
        \/ GuardWrite(t)

SpecFair == Init /\ [][NextBlocking]_vars /\ LockFairness

\* ---- properties ----

\* every (thread, index) of a live guard whose unique_lock owns the primitive
Holds == {th \in Threads \X (1..MaxGuards) :
             th[2] <= Len(guards[th[1]]) /\ guards[th[1]][th[2]].owns}

\* C1: mutual exclusion on std::mutex: at most one live guard holds the
\* primitive at any instant, it belongs to the thread that owns the primitive,
\* and no two threads are inside an access to the value at the same time.
C1_MutualExclusion ==
    impl = "mutex" =>
        /\ Cardinality(Holds) <= 1
        /\ \A t \in Threads : HoldsGuard(t) => m_mutex.owner = t
        /\ \A t \in Threads : tmp[t] # <<>> => HoldsGuard(t)
        /\ Cardinality({t \in Threads : tmp[t] # <<>>}) <= 1

\* a guard is live in one thread while the other thread waits in lock()
C1_Witness ==
    /\ impl = "mutex"
    /\ \E t, u \in Threads :
        /\ t # u
        /\ HoldsGuard(t)
        /\ tmp[t] # <<>>
        /\ pc[u] = "locking"

\* C2: a checked acquisition never hands out a guard while the Mutex is
\* poisoned: at the step in which lock() or try_lock() returns a guard,
\* m_was_poisoned is false.
C2_CheckedNeverReturnsGuardWhenPoisoned ==
    [][\A t \in Threads :
          ((LockAcquire(t) \/ TryAcquire(t))
              /\ call[t] \in {"lock", "try_lock"}
              /\ result'[t] = "guard")
          => ~m_was_poisoned]_vars

\* C3: a guard destroyed by a failure that propagates out of its scope poisons
\* the Mutex for good; the destructor leaves the value and the failure alone
\* (only a handler ends the failure), and the value only changes by a store of
\* a thread that is not unwinding.
C3_PoisonOnAbandon ==
    /\ [](abandoned => m_was_poisoned)
    /\ [][\A t \in Threads :
            /\ (Dtor(t) /\ pc[t] = "unwind") =>
                  (m_was_poisoned' /\ m_value' = m_value /\ exc'[t] = exc[t])
            /\ exc'[t] < exc[t] => Catch(t)
            /\ (pc[t] \in {"unwind", "unwind_dtor"} /\ pc'[t] = "run") =>
                  (Catch(t) \/ EnterCleanup(t))]_vars
    /\ [][m_value' # m_value =>
            \E t \in Threads : exc[t] = 0 /\ (GuardWrite(t) \/ GuardIncr(t))]_vars

\* the failure was caught outside the scope of the guard it destroyed
C3_Witness ==
    /\ abandoned
    /\ m_was_poisoned
    /\ \E t \in Threads : result[t] = "caught" /\ guards[t] = <<>>

\* C4: once poisoned, every call of lock() and try_lock() that starts throws
\* the poisoned error and yields no guard (try_lock() does not return an empty
\* optional either).
C4_CheckedFailsWhenPoisoned ==
    [][\A t \in Threads :
          (m_was_poisoned /\ (lock(t) \/ try_lock(t))) =>
              /\ result'[t] = "PoisonedError"
              /\ pc'[t] \notin {"locking", "trying"}
              /\ guards' = guards
              /\ m_mutex' = m_mutex]_vars

\* both checked calls have thrown on the poisoned Mutex
C4_Witness ==
    /\ m_was_poisoned
    /\ \E t, u \in Threads :
        /\ call[t] = "lock" /\ result[t] = "PoisonedError"
        /\ call[u] = "try_lock" /\ result[u] = "PoisonedError"

\* C5: m_was_poisoned is false at construction and never goes back to false.
C5_PoisonMonotonic ==
    /\ ~m_was_poisoned
    /\ [][m_was_poisoned => m_was_poisoned']_vars

\* a guard is released normally on a Mutex that is already poisoned
C5_Witness ==
    /\ m_was_poisoned
    /\ \E t \in Threads : pc[t] = "dtor" /\ exc[t] = 0

\* C6: unchecked acquisition works on a poisoned Mutex: lock_unchecked() and
\* try_lock_unchecked() do not throw; with the primitive free they yield a
\* guard; the value is the one last written; the flag stays true while the
\* guard is acquired, live and released.
C6_UncheckedWorksWhenPoisoned ==
    /\ [](m_was_poisoned =>
            /\ m_value = expected
            /\ \A t \in Threads :
                (pc[t] = "locking" /\ m_mutex = Free) => ENABLED LockAcquire(t))
    /\ [][\A t \in Threads :
            /\ (m_was_poisoned /\ (lock_unchecked(t) \/ try_lock_unchecked(t))) =>
                  /\ result'[t] # "PoisonedError"
                  /\ pc'[t] \in {"locking", "trying"}
                  /\ exc'[t] = exc[t]
            /\ (m_was_poisoned /\ m_mutex = Free
                  /\ (LockAcquire(t) \/ TryAcquire(t))) =>
                  /\ result'[t] = "guard"
                  /\ guards'[t][Len(guards'[t])].owns
                  /\ m_was_poisoned'
            /\ (m_was_poisoned /\ (Dtor(t) \/ DtorUnlock(t))) => m_was_poisoned']_vars

\* both unchecked calls have returned a guard on the poisoned Mutex: the one
\* of lock_unchecked() has been released normally, the one of
\* try_lock_unchecked() is live
C6_Witness ==
    /\ m_was_poisoned
    /\ \E t, u \in Threads :
        /\ call[t] = "lock_unchecked" /\ result[t] = "guard"
        /\ guards[t] = <<>> /\ pc[t] = "run" /\ exc[t] = 0
        /\ call[u] = "try_lock_unchecked" /\ result[u] = "guard"
        /\ HoldsGuard(u) /\ exc[u] = 0

\* some live guard holds the primitive
AnyHold == \E u \in Threads : HoldsGuard(u)

\* C7: on std::mutex the non-blocking attempt of try_lock() and
\* try_lock_unchecked() never waits and answers by the state of the primitive:
\* an empty optional while a guard is live (of another thread or of the
\* caller), leaving guards and primitive as they were; a guard that holds the
\* primitive otherwise.
C7_TryLockByState ==
    /\ [](\A t \in Threads : pc[t] = "trying" => ENABLED TryAcquire(t))
    /\ [][\A t \in Threads :
            (impl = "mutex" /\ TryAcquire(t)) =>
                IF AnyHold
                THEN /\ result'[t] = "nullopt"
                     /\ guards' = guards
                     /\ m_mutex' = m_mutex
                ELSE /\ result'[t] = "guard"
                     /\ Len(guards'[t]) = Len(guards[t]) + 1
                     /\ guards'[t][Len(guards'[t])].owns
                     /\ m_mutex'.owner = t]_vars

\* try_lock() by the thread that holds the live guard returned an empty
\* optional, and the guard still holds the primitive
C7_Witness ==
    /\ impl = "mutex"
    /\ ~m_was_poisoned
    /\ \E t \in Threads :
        /\ call[t] = "try_lock" /\ result[t] = "nullopt"
        /\ HoldsGuard(t) /\ m_mutex.owner = t

\* C8: the value of the Mutex is always the one left by the stores made
\* through its guards (the constructed value if there was none): a store
\* reaches m_value, and no increment made under a guard is lost.
C8_WriteVisibility == m_value = expected

\* one thread stored through its guard and released it; the other then
\* acquired a guard
C8_Witness ==
    \E t, u \in Threads :
        /\ t # u
        /\ result[u] = "wrote" /\ guards[u] = <<>> /\ pc[u] = "run"
        /\ call[t] = "lock" /\ result[t] = "guard" /\ HoldsGuard(t)

\* C9: a guard released while no failure propagates leaves m_was_poisoned as
\* it was, also after a failure that was caught inside the guard's scope; on
\* the Mutex that is not poisoned a checked acquisition does not throw.
C9_HandledFailureDoesNotPoison ==
    [][\A t \in Threads :
          /\ ((Dtor(t) \/ DtorUnlock(t)) /\ exc[t] = 0) =>
                m_was_poisoned' = m_was_poisoned
          /\ (~m_was_poisoned /\ (lock(t) \/ try_lock(t))) =>
                (result'[t] # "PoisonedError" /\ pc'[t] \in {"locking", "trying"})]_vars

\* the destructor body of a guard ran after a failure was caught inside the
\* guard's scope, and the Mutex is not poisoned
C9_Witness ==
    /\ ~m_was_poisoned
    /\ \E t \in Threads : result[t] = "caught" /\ pc[t] = "dtor" /\ exc[t] = 0

\* C10: on std::recursive_mutex the thread that holds a live guard can take
\* the primitive again without waiting; the primitive stays owned by that
\* thread, once per guard of it that holds, and no other thread holds a guard.
C10_Reentrant ==
    impl = "recursive_mutex" =>
        \A t \in Threads :
            HoldsGuard(t) =>
                /\ CanLock(m_mutex, t, impl)
                /\ pc[t] = "locking" => ENABLED LockAcquire(t)
                /\ m_mutex.owner = t
                /\ m_mutex.count = Cardinality(OwningGuards(t))
                /\ \A u \in Threads \ {t} :
                    ~HoldsGuard(u) /\ ~CanLock(m_mutex, u, impl)

\* a thread holds two guards at once while the other thread waits in lock()
C10_Witness ==
    /\ impl = "recursive_mutex"
    /\ \E t, u \in Threads :
        /\ t # u
        /\ Cardinality(OwningGuards(t)) = 2
        /\ call[t] = "lock" /\ result[t] = "guard"
        /\ pc[u] = "locking"

\* C11: the Mutex as constructed: until a guard is destroyed or stored
\* through, the Mutex is not poisoned and its value, and every value read
\* through a guard, is the constructor's argument (the default value of the
\* type when there was none); before the first guard is acquired the primitive
\* is free.
C11_InitialState ==
    fresh # <<>> =>
        LET args == fresh[1]
            v == IF args = <<>> THEN DefaultValue ELSE args[1]
        IN /\ ~m_was_poisoned
           /\ m_value = v
           /\ \A t \in Threads : tmp[t] # <<>> => tmp[t] = <<v>>
           /\ (\A t \in Threads : guards[t] = <<>>) => m_mutex = Free

\* the first guard was acquired and the value read through it, while the
\* other thread waits for the primitive
C11_Witness ==
    /\ fresh # <<>>
    /\ \E t, u \in Threads :
        /\ HoldsGuard(t)
        /\ tmp[t] # <<>>
        /\ pc[u] = "locking"

\* C12: poison before unlock: in the step in which a thread whose failure
\* propagates gives up a hold on the primitive, m_was_poisoned is already true;
\* so once a guard has been abandoned the flag is set in every state, a guard
\* obtained afterwards is obtained on a poisoned Mutex, and is_poisoned() called
\* by a thread that holds a guard answers true.
C12_PoisonBeforeUnlock ==
    /\ [](abandoned => m_was_poisoned)
    /\ [][\A t \in Threads :
            /\ (pc[t] \in {"unwind", "unwind_dtor"} /\ m_mutex.owner = t
                  /\ m_mutex' # m_mutex) =>
                  (m_was_poisoned /\ m_was_poisoned')
            /\ (abandoned /\ (LockAcquire(t) \/ TryAcquire(t))
                  /\ result'[t] = "guard") => m_was_poisoned'
            /\ (abandoned /\ HoldsGuard(t) /\ is_poisoned(t)) =>
                  result'[t] = "true"]_vars

\* after the other thread's guard was destroyed by a failure, a thread holds
\* a guard and has seen is_poisoned() answer true
C12_Witness ==
    /\ abandoned
    /\ \E t, u \in Threads :
        /\ t # u
        /\ result[t] = "caught" /\ guards[t] = <<>>
        /\ HoldsGuard(u)
        /\ call[u] = "is_poisoned" /\ result[u] = "true"

\* C13: the primitive is always released: a thread that has no live guard
\* does not own the primitive, whether its guards ended normally or were
\* destroyed by a failure; while no live guard holds the primitive it is
\* free, a non-blocking attempt on it succeeds and a thread waiting in
\* lock() or lock_unchecked() can proceed.
C13_AlwaysReleased ==
    /\ \A t \in Threads : guards[t] = <<>> => m_mutex.owner # t
    /\ ~AnyHold =>
          /\ m_mutex = Free
          /\ \A t \in Threads :
                /\ CanLock(m_mutex, t, impl)
                /\ pc[t] = "locking" => ENABLED LockAcquire(t)

\* the only guard was destroyed by a failure, which has been caught; the
\* Mutex is poisoned, the primitive free, and the other thread waits for it
C13_Witness ==
    /\ impl = "mutex"
    /\ abandoned
    /\ m_was_poisoned
    /\ m_mutex = Free
    /\ \E t, u \in Threads :
        /\ t # u
        /\ result[t] = "caught" /\ guards[t] = <<>>
        /\ guards[u] = <<>> /\ pc[u] = "locking"

\* C14: poisoning happens only on abnormal teardown of the guard's own scope:
\* the destructor of a guard sets m_was_poisoned if the guard's scope is being
\* unwound by a failure, and leaves the flag as it was if the scope is left by
\* fall-through, whatever the thread is doing otherwise (cleanup code that
\* runs while an outer failure unwinds included).
C14_PoisonOnlyOnOwnScopeTeardown ==
    [][\A t \in Threads :
          /\ (Dtor(t) /\ pc[t] = "unwind") => m_was_poisoned'
          /\ (Dtor(t) /\ pc[t] = "run") => m_was_poisoned' = m_was_poisoned]_vars

\* C15: the poison check of lock() and try_lock() comes before any attempt on
\* the primitive: on a poisoned Mutex the call can always be made and fails at
\* once, whoever holds the primitive; it never reaches the primitive and
\* leaves the primitive, the guards, the value and the flag as they were.
C15_CheckBeforePrimitive ==
    /\ [](m_was_poisoned =>
            \A t \in Threads :
                (Ready(t) /\ Len(guards[t]) < MaxGuards) =>
                    (ENABLED lock(t) /\ ENABLED try_lock(t)))
    /\ [][\A t \in Threads :
            (m_was_poisoned /\ (lock(t) \/ try_lock(t))) =>
                /\ result'[t] = "PoisonedError"
                /\ pc'[t] \notin {"locking", "trying"}
                /\ m_mutex' = m_mutex
                /\ guards' = guards
                /\ m_value' = m_value
                /\ m_was_poisoned' = m_was_poisoned]_vars

\* try_lock() has thrown the poisoned error while the other thread holds a
\* live guard
C15_Witness ==
    /\ m_was_poisoned
    /\ \E t, u \in Threads :
        /\ t # u
        /\ HoldsGuard(u) /\ m_mutex.owner = u
        /\ call[t] = "try_lock" /\ result[t] = "PoisonedError"

\* C16: is_poisoned() is a pure, non-blocking observer: client code can call
\* it whatever the state of the primitive, also while another thread holds a
\* live guard; it answers the value the flag has at that moment and changes
\* neither the primitive, the guards, the value nor the flag, and the caller
\* goes on where it was.
C16_IsPoisonedPure ==
    /\ [](\A t \in Threads : Body(t) => ENABLED is_poisoned(t))
    /\ [][\A t \in Threads :
            is_poisoned(t) =>
                /\ result'[t] = (IF m_was_poisoned THEN "true" ELSE "false")
                /\ m_mutex' = m_mutex
                /\ guards' = guards
                /\ m_value' = m_value
                /\ m_was_poisoned' = m_was_poisoned
                /\ pc'[t] = pc[t] /\ exc'[t] = exc[t]]_vars

\* is_poisoned() has answered while the other thread holds a live guard and
\* is in the middle of an update of the value
C16_Witness ==
    \E t, u \in Threads :
        /\ t # u
        /\ HoldsGuard(u) /\ tmp[u] # <<>>
        /\ call[t] = "is_poisoned" /\ result[t] = "true"
        /\ m_was_poisoned

\* C17: blocking acquisition makes progress: a thread in lock() or
\* lock_unchecked() on std::mutex waits exactly while the primitive is held;
\* if every hold on the primitive is eventually released and the primitive
\* grants waiters fairly, the waiting thread eventually returns from the call
\* with a guard.
C17_BlockingProgress ==
    /\ [](\A t \in Threads :
            (impl = "mutex" /\ pc[t] = "locking") =>
                (ENABLED LockAcquire(t) <=> m_mutex = Free))
    /\ ([]<>(~AnyHold) =>
            \A t \in Threads :
                (pc[t] = "locking") ~> (pc[t] = "run" /\ result[t] = "guard"))

\* a thread waits in lock_unchecked() while the other thread holds the
\* primitive
C17_Witness ==
    /\ impl = "mutex"
    /\ \E t, u \in Threads :
        /\ t # u
        /\ pc[t] = "locking" /\ call[t] = "lock_unchecked"
        /\ HoldsGuard(u) /\ m_mutex.owner = u
        /\ ~ENABLED LockAcquire(t)

\* C18: the poisoning check runs at every guard release, exactly once: every
\* step in which a guard gives up its hold on the primitive (end of scope,
\* destruction by a failure, or the guard being overwritten by a
\* move-assignment) is made by a thread that is in the destructor of that
\* guard, after the one run of its body (the check), and the guard given up is
\* the one the check was made for.
C18_CheckAtEveryRelease ==
    [][\A t \in Threads :
          (m_mutex.owner = t /\ m_mutex'.count < m_mutex.count) =>
              /\ pc[t] \in {"dtor", "unwind_dtor"}
              /\ DtorUnlock(t)]_vars

\* C19: hold accounting across guard moves: the number of holds on the
\* primitive is the number of live guards whose unique_lock owns it, and they
\* all belong to the thread that owns the primitive; so a move transfers the
\* hold without unlocking or locking, the destruction of a moved-from guard
\* unlocks nothing, and every acquisition is unlocked once.
C19_HoldAccounting ==
    /\ m_mutex.count = Cardinality(Holds)
    /\ \A t \in Threads : HoldsGuard(t) => m_mutex.owner = t
    /\ m_mutex.count = 0 <=> m_mutex.owner = NoThread

\* the destructor of a moved-from guard runs while the guard that took over
\* its hold is live
C19_Witness ==
    \E t \in Threads :
        /\ pc[t] = "dtor"
        /\ Len(guards[t]) = 2
        /\ guards[t][1].owns /\ ~guards[t][2].owns
        /\ m_mutex = [owner |-> t, count |-> 1]

\* the destructor body of the top guard of thread t is about to write the flag
WriteReady(t) == ENABLED Dtor(t) /\ exc[t] # 0

\* C20: poison writes happen under the lock: the destructor body that writes
\* m_was_poisoned runs in a thread that holds the primitive through the guard
\* being destroyed, so on std::mutex no two threads are about to write the
\* flag at the same time.
C20_PoisonWriteUnderLock ==
    /\ [](impl = "mutex" =>
            \A t, u \in Threads :
                (WriteReady(t) /\ WriteReady(u)) => t = u)
    /\ [][\A t \in Threads :
            (Dtor(t) /\ exc[t] # 0) =>
                /\ guards[t][Len(guards[t])].owns
                /\ m_mutex.owner = t]_vars
====
